---- MODULE Spec2Model ----
(***************************************************************************)
(* S_and_P_500-friends.py: a linear script that builds an undirected graph *)
(* of companies from a table of records (random links inside a sector),    *)
(* prints basic and deep network metrics, and exports the graph.           *)
(*                                                                         *)
(* Symbols and sectors are integers.  The script only compares symbols and *)
(* sectors for equality and orders nodes by insertion, so every input is   *)
(* equivalent to one whose symbols and sectors are numbered in order of    *)
(* first appearance; the inputs below are in that form.                    *)
(*                                                                         *)
(* Graph objects live in a heap (a sequence of graph values) and the       *)
(* script's names G, G_no_hub and config_G hold references into it, so     *)
(* that copying and aliasing are distinguishable.                          *)
(***************************************************************************)
EXTENDS Integers, Sequences, FiniteSets, Bags, TLC

\* ---------------------------------------------------------------- bounds
MaxRecs == 3          \* rows of the nodes file, arbitrary records
MaxSectors == 2       \* distinct sector labels among arbitrary records
MaxEdgeSym == 2       \* symbols that rows of the edges file may mention
MaxHubRecs == 6       \* rows of the nodes file, records grouped by sector
HubSectorSize == 3    \* rows per sector in a grouped nodes file

None == 0
Unset == -1
NoValue == <<0, 0>>

VARIABLES nodes_df, edges_file, pc, heap, G, built, top_hub, G_no_hub,
          new_gcc_size, config_multi, config_G, avg_degree, diameter,
          avg_path, error, exported

vars == <<nodes_df, edges_file, pc, heap, G, built, top_hub, G_no_hub,
          new_gcc_size, config_multi, config_G, avg_degree, diameter,
          avg_path, error, exported>>

\* ---------------------------------------------------------------- inputs
Max(S) == CHOOSE x \in S : \A y \in S : y <= x

Min(S) == CHOOSE x \in S : \A y \in S : x <= y

\* labellings of n rows by 1..k, numbered in order of first appearance
FirstAppearance(n, k) ==
    {s \in [1..n -> 1..k] :
        \A i \in 1..n : s[i] <= 1 + Max({0} \cup {s[j] : j \in 1..(i - 1)})}

Row(sym, sec) == [Symbol |-> sym, Sector |-> sec]

\* nodes files with arbitrary (possibly repeated) symbols
RecordSeqs ==
    UNION {{[i \in 1..n |-> Row(sy[i], se[i])] :
                sy \in FirstAppearance(n, n), se \in FirstAppearance(n, MaxSectors)} :
           n \in 0..MaxRecs}

\* nodes files with distinct symbols, listed sector by sector
GroupedSeqs ==
    {[i \in 1..n |-> Row(i, ((i - 1) \div HubSectorSize) + 1)] : n \in 0..MaxHubRecs}

\* the edges file: absent, or a list of (source, target) rows
EdgeFiles ==
    {[present |-> FALSE, rows |-> <<>>], [present |-> TRUE, rows |-> <<>>]}
    \cup {[present |-> TRUE, rows |-> <<p>>] :
              p \in {q \in (1..MaxEdgeSym) \X (1..MaxEdgeSym) : q[1] < q[2]}}

\* ---------------------------------------------------------------- graphs
\* nx.Graph(): nodes in insertion order, one sector attribute per node,
\* edges as a set of 1- or 2-element node sets (a self-loop is {n})
EmptyGraph == [nodes |-> <<>>, sector |-> <<>>, edges |-> {}]

NodeSet(g) == {g.nodes[i] : i \in 1..Len(g.nodes)}

IndexOf(seq, x) == CHOOSE i \in 1..Len(seq) : seq[i] = x

\* G.add_node(sym, sector=sec): a known node only has its attribute replaced
add_node(g, sym, sec) ==
    IF sym \in NodeSet(g)
    THEN [g EXCEPT !.sector[IndexOf(g.nodes, sym)] = sec]
    ELSE [g EXCEPT !.nodes = Append(@, sym), !.sector = Append(@, sec)]

RECURSIVE AddRows(_, _, _)
AddRows(g, df, i) ==
    IF i > Len(df) THEN g
    ELSE AddRows(add_node(g, df[i].Symbol, df[i].Sector), df, i + 1)

\* nodes_df['Sector'].unique()
unique(df) == {df[i].Sector : i \in 1..Len(df)}

\* nodes_df[nodes_df['Sector'] == sector]['Symbol'].tolist()
sector_nodes(df, sector) ==
    LET rows == SelectSeq(df, LAMBDA r : r.Sector = sector)
    IN  [i \in 1..Len(rows) |-> rows[i].Symbol]

\* the (sector, i, j) triples on which random.random() is drawn
Trials(df) ==
    {<<s, i, j>> \in unique(df) \X (1..Len(df)) \X (1..Len(df)) :
        i < j /\ j <= Len(sector_nodes(df, s))}

\* G.add_edge(u, v) on a set-valued edge store
add_edge(g, u, v) == [g EXCEPT !.edges = @ \cup {{u, v}}]

\* the nested loops over sectors and pairs, for the draws that fell below 0.1
RECURSIVE AddEdges(_, _, _)
AddEdges(g, df, hits) ==
    IF hits = {} THEN g
    ELSE LET t == CHOOSE t \in hits : TRUE
             sn == sector_nodes(df, t[1])
         IN  AddEdges(add_edge(g, sn[t[2]], sn[t[3]]), df, hits \ {t})

\* the graph returned when the draws below 0.1 are exactly `hits'; the
\* edges file named by edges_path is never opened
load_and_build_graph(df, edges, hits) ==
    AddEdges(AddRows(EmptyGraph, df, 1), df, hits)

\* G.degree: a self-loop counts twice
Degree(g, n) ==
    Cardinality({e \in g.edges : n \in e}) + (IF {n} \in g.edges THEN 1 ELSE 0)

Adj(g, n) == {m \in NodeSet(g) : {n, m} \in g.edges}

RECURSIVE Reach(_, _, _)
Reach(g, seen, frontier) ==
    IF frontier = {} THEN seen
    ELSE LET next == (UNION {Adj(g, n) : n \in frontier}) \ seen
         IN  Reach(g, seen \cup next, next)

\* nx.connected_components(G): components in order of their first node
RECURSIVE Components(_, _, _, _)
Components(g, i, seen, acc) ==
    IF i > Len(g.nodes) THEN acc
    ELSE IF g.nodes[i] \in seen THEN Components(g, i + 1, seen, acc)
    ELSE LET c == Reach(g, {g.nodes[i]}, {g.nodes[i]})
         IN  Components(g, i + 1, seen \cup c, Append(acc, c))

connected_components(g) == Components(g, 1, {}, <<>>)

\* max(components, key=len): the first of the largest; ValueError on none
MaxByLen_default(comps) ==
    IF Len(comps) = 0 THEN [ok |-> TRUE, value |-> {}]
    ELSE [ok |-> TRUE,
          value |-> comps[CHOOSE i \in 1..Len(comps) :
                        /\ \A j \in 1..Len(comps) : Cardinality(comps[j]) <= Cardinality(comps[i])
                        /\ \A j \in 1..(i - 1) : Cardinality(comps[j]) < Cardinality(comps[i])]]

MaxByLen(comps) ==
    IF Len(comps) = 0 THEN [ok |-> FALSE, value |-> {}]
    ELSE [ok |-> TRUE,
          value |-> comps[CHOOSE i \in 1..Len(comps) :
                        /\ \A j \in 1..Len(comps) : Cardinality(comps[j]) <= Cardinality(comps[i])
                        /\ \A j \in 1..(i - 1) : Cardinality(comps[j]) < Cardinality(comps[i])]]

\* G.subgraph(nodes)
subgraph(g, S) ==
    LET keep == {i \in 1..Len(g.nodes) : g.nodes[i] \in S}
        RECURSIVE Pick(_)
        Pick(i) == IF i > Len(g.nodes) THEN <<>>
                   ELSE IF i \in keep THEN <<i>> \o Pick(i + 1) ELSE Pick(i + 1)
        idx == Pick(1)
    IN  [nodes |-> [k \in 1..Len(idx) |-> g.nodes[idx[k]]],
         sector |-> [k \in 1..Len(idx) |-> g.sector[idx[k]]],
         edges |-> {e \in g.edges : e \subseteq S}]

\* breadth-first distance from the frontier to `target'
RECURSIVE BFS(_, _, _, _, _)
BFS(g, target, frontier, seen, d) ==
    IF target \in frontier THEN d
    ELSE IF frontier = {} THEN -1
    ELSE LET next == (UNION {Adj(g, n) : n \in frontier}) \ seen
         IN  BFS(g, target, next, seen \cup next, d + 1)

Dist(g, a, b) == BFS(g, b, {a}, {a}, 0)

eccentricity(g, v) == Max({Dist(g, v, w) : w \in NodeSet(g)})

radius(g) == Min({eccentricity(g, v) : v \in NodeSet(g)})

\* nx.diameter on a connected graph
diameter_of(g) == Max({eccentricity(g, v) : v \in NodeSet(g)})

RECURSIVE SumOver(_, _)
SumOver(f, S) ==
    IF S = {} THEN 0
    ELSE LET x == CHOOSE x \in S : TRUE IN f[x] + SumOver(f, S \ {x})

\* nx.average_shortest_path_length on a connected graph, as <<sum, pairs>>
average_shortest_path_length(g) ==
    LET n == Len(g.nodes)
        d == [p \in NodeSet(g) \X NodeSet(g) |-> Dist(g, p[1], p[2])]
    IN  IF n = 1 THEN <<0, 1>>
        ELSE <<SumOver(d, NodeSet(g) \X NodeSet(g)), n * (n - 1)>>

\* list(G.degree): (node, degree) in node order
degree_view(g) == [i \in 1..Len(g.nodes) |-> <<g.nodes[i], Degree(g, g.nodes[i])>>]

\* sorted(..., key=degree, reverse=True): stable, equal keys keep their order
RECURSIVE SortedDesc(_, _, _)
SortedDesc(seq, i, acc) ==
    IF i > Len(seq) THEN acc
    ELSE LET x == seq[i]
             before == SelectSeq(acc, LAMBDA y : y[2] >= x[2])
             after == SelectSeq(acc, LAMBDA y : y[2] < x[2])
         IN  SortedDesc(seq, i + 1, before \o <<x>> \o after)

RECURSIVE SortedDescUnstable(_, _, _)
SortedDescUnstable(seq, i, acc) ==
    IF i > Len(seq) THEN acc
    ELSE LET x == seq[i]
             before == SelectSeq(acc, LAMBDA y : y[2] > x[2])
             after == SelectSeq(acc, LAMBDA y : y[2] <= x[2])
         IN  SortedDescUnstable(seq, i + 1, before \o <<x>> \o after)

sorted_hubs_unstable(g) == SortedDescUnstable(degree_view(g), 1, <<>>)

sorted_hubs(g) == SortedDesc(degree_view(g), 1, <<>>)

\* G.remove_node(n): the node, its attribute and its incident edges
remove_node_keep(g, n) == g

remove_node(g, n) == subgraph(g, NodeSet(g) \ {n})

\* G.copy(): a fresh object with the same contents; G itself is untouched
GraphCopy_alias(h, ref) == [heap |-> h, ref |-> ref]

GraphCopy(h, ref) == [heap |-> Append(h, h[ref]), ref |-> Len(h) + 1]

\* ---------------------------------------------------- configuration model
\* nx.configuration_model(deg_sequence): node i-1 contributes deg[i] stubs
to_stublist(deg) ==
    LET RECURSIVE Stubs(_)
        Stubs(i) == IF i > Len(deg) THEN <<>>
                    ELSE [k \in 1..deg[i] |-> i - 1] \o Stubs(i + 1)
    IN  Stubs(1)

\* the shuffled stub list is cut in two halves that are zipped: over all
\* shuffles this yields every perfect matching of the stub positions
RECURSIVE Matchings(_)
Matchings(S) ==
    IF S = {} THEN {{}}
    ELSE LET a == Min(S)
         IN  UNION {{{<<a, b>>} \cup m : m \in Matchings(S \ {a, b})} : b \in S \ {a}}

\* MultiGraph.add_edges_from(zip(out, in)): parallel edges are counted
MultiEdges_collapsed(stubs, m) ==
    LET E == {{stubs[p[1]], stubs[p[2]]} : p \in m}
    IN  [e \in E |-> 1]

MultiEdges(stubs, m) ==
    LET E == {{stubs[p[1]], stubs[p[2]]} : p \in m}
    IN  [e \in E |-> Cardinality({p \in m : {stubs[p[1]], stubs[p[2]]} = e})]

\* degree in a multigraph: each parallel edge counts, a self-loop twice
MultiDegree(mg, n) ==
    LET inc == {e \in DOMAIN mg.edges : n \in e}
        w == [e \in inc |-> mg.edges[e] * (IF e = {n} THEN 2 ELSE 1)]
    IN  SumOver(w, inc)

configuration_model(deg, m) ==
    [n |-> Len(deg), edges |-> MultiEdges(to_stublist(deg), m)]

\* nx.Graph(multigraph): same nodes, parallel edges merged
simple_graph(mg) ==
    [nodes |-> [i \in 1..mg.n |-> i - 1], sector |-> <<>>, edges |-> DOMAIN mg.edges]

NoMulti == [n |-> 0, edges |-> EmptyBag]

\* --------------------------------------------------------------- actions
CommonInit ==
    /\ edges_file \in EdgeFiles
    /\ pc = "start"
    /\ heap = <<>>
    /\ G = None
    /\ built = EmptyGraph
    /\ top_hub = None
    /\ G_no_hub = None
    /\ new_gcc_size = Unset
    /\ config_multi = NoMulti
    /\ config_G = None
    /\ avg_degree = NoValue
    /\ diameter = Unset
    /\ avg_path = NoValue
    /\ error = "none"
    /\ exported = EmptyGraph

Init == nodes_df \in RecordSeqs /\ CommonInit

InitHub == nodes_df \in (RecordSeqs \cup GroupedSeqs) /\ CommonInit

\* G = load_and_build_graph('sp500_nodes.csv', 'sp500_edges.csv')
Build ==
    /\ pc = "start"
    /\ \E hits \in SUBSET Trials(nodes_df) :
          /\ heap' = <<load_and_build_graph(nodes_df, edges_file, hits)>>
          /\ built' = load_and_build_graph(nodes_df, edges_file, hits)
    /\ G' = 1
    /\ pc' = "basic"
    /\ UNCHANGED <<nodes_df, edges_file, top_hub, G_no_hub, new_gcc_size,
                   config_multi, config_G, avg_degree, diameter, avg_path,
                   error, exported>>

\* calculate_basic_metrics(G); the division by zero nodes raises
BasicMetrics ==
    /\ pc = "basic"
    /\ LET g == heap[G]
           n == Len(g.nodes)
           degs == [x \in NodeSet(g) |-> Degree(g, x)]
           gcc == subgraph(g, MaxByLen(connected_components(g)).value)
       IN  \/ /\ n = 0
              /\ error' = "ZeroDivisionError"
              /\ pc' = "failed"
              /\ UNCHANGED <<avg_degree, diameter, avg_path>>
           \/ /\ n > 0
              /\ avg_degree' = <<SumOver(degs, NodeSet(g)), n>>
              /\ diameter' = diameter_of(gcc)
              /\ avg_path' = average_shortest_path_length(gcc)
              /\ pc' = "deep_hub"
              /\ UNCHANGED error
    /\ UNCHANGED <<nodes_df, edges_file, heap, G, built, top_hub, G_no_hub,
                   new_gcc_size, config_multi, config_G, exported>>

\* calculate_deep_metrics(G), step 3: remove the top hub from a copy
HubRemoval ==
    /\ pc = "deep_hub"
    /\ LET hubs == sorted_hubs(heap[G])
           hub == hubs[1][1]
           cp == GraphCopy(heap, G)
           h2 == [cp.heap EXCEPT ![cp.ref] = remove_node(@, hub)]
           m == MaxByLen(connected_components(h2[cp.ref]))
       IN  /\ top_hub' = hub
           /\ G_no_hub' = cp.ref
           /\ heap' = h2
           /\ \/ /\ m.ok
                 /\ new_gcc_size' = Cardinality(m.value)
                 /\ pc' = "deep_config"
                 /\ UNCHANGED error
              \/ /\ ~m.ok
                 /\ error' = "ValueError"
                 /\ pc' = "failed"
                 /\ UNCHANGED new_gcc_size
    /\ UNCHANGED <<nodes_df, edges_file, G, built, config_multi, config_G,
                   avg_degree, diameter, avg_path, exported>>

\* calculate_deep_metrics(G), step 4: configuration model, then nx.Graph
ConfigModel ==
    /\ pc = "deep_config"
    /\ LET g == heap[G]
           deg == [i \in 1..Len(g.nodes) |-> Degree(g, g.nodes[i])]
       IN  \E m \in Matchings(1..Len(to_stublist(deg))) :
              /\ config_multi' = configuration_model(deg, m)
              /\ heap' = Append(heap, simple_graph(configuration_model(deg, m)))
    /\ config_G' = Len(heap) + 1
    /\ pc' = "export"
    /\ UNCHANGED <<nodes_df, edges_file, G, built, top_hub, G_no_hub,
                   new_gcc_size, avg_degree, diameter, avg_path, error, exported>>

\* nx.write_gexf(G, ...)
Export ==
    /\ pc = "export"
    /\ exported' = heap[G]
    /\ pc' = "done"
    /\ UNCHANGED <<nodes_df, edges_file, heap, G, built, top_hub, G_no_hub,
                   new_gcc_size, config_multi, config_G, avg_degree, diameter,
                   avg_path, error>>

Next == Build \/ BasicMetrics \/ HubRemoval \/ ConfigModel \/ Export

Spec == Init /\ [][Next]_vars

\* the script up to the hub-removal step, on the larger grouped inputs
NextHub == Build \/ BasicMetrics \/ HubRemoval

SpecHub == InitHub /\ [][NextHub]_vars

\* ------------------------------------------------------------ properties
Returned == pc # "start"

SectorOf(g, n) == g.sector[IndexOf(g.nodes, n)]

HasDuplicateSymbol(df) ==
    \E i, j \in 1..Len(df) : i < j /\ df[i].Symbol = df[j].Symbol

GCCSize(g) == Cardinality(MaxByLen(connected_components(g)).value)

ComponentSet(g) ==
    {connected_components(g)[i] : i \in 1..Len(connected_components(g))}

\* a node whose removal increases the number of connected components
IsArticulationPoint(g, v) ==
    Len(connected_components(subgraph(g, NodeSet(g) \ {v})))
        > Len(connected_components(g))

BasicReported == diameter # Unset

HubReported == new_gcc_size # Unset

\* C1: the graph returned by load_and_build_graph has no edge between nodes
\* of different sectors and no self-loop (its edges are a set, so none is
\* duplicated), whatever the records and the random draws.
C1_SameSectorSimpleEdges ==
    Returned =>
        \A e \in built.edges :
            /\ e \subseteq NodeSet(built)
            /\ Cardinality(e) = 2
            /\ \A a, b \in e : SectorOf(built, a) = SectorOf(built, b)

\* C2: when an edges file is supplied, the edges of the returned graph are
\* exactly the rows of that file.
C2_EdgeListTakesPrecedence ==
    (Returned /\ edges_file.present) =>
        built.edges = {{edges_file.rows[i][1], edges_file.rows[i][2]} :
                           i \in 1..Len(edges_file.rows)}

\* C3: on a repeated symbol or an empty record set load_and_build_graph
\* fails (DataFormatError, EmptyInputError) and returns no graph.
C3_BadInputRejected ==
    (pc # "start" /\ (HasDuplicateSymbol(nodes_df) \/ Len(nodes_df) = 0)) =>
        /\ G = None
        /\ error = (IF Len(nodes_df) = 0 THEN "EmptyInputError" ELSE "DataFormatError")

\* C4: when the giant component has fewer than 2 nodes, the diameter and the
\* average path length are not reported and calculate_basic_metrics fails; a
\* single isolated node has average degree 0.
C4_SmallGCCFails ==
    (pc \notin {"start", "basic"} /\ Len(built.nodes) >= 1 /\ GCCSize(built) < 2) =>
        /\ diameter = Unset
        /\ avg_path = NoValue
        /\ pc = "failed"
        /\ (Len(built.nodes) = 1 /\ built.edges = {}) => avg_degree = <<0, 1>>

\* C5 as stated: after removing the top hub of a graph of 2 or more nodes the
\* GCC is no larger than before, and is as large only if the hub was not an
\* articulation point.
C5_EqualOnlyIfNotArticulation ==
    (HubReported /\ Len(built.nodes) >= 2) =>
        /\ new_gcc_size <= GCCSize(built)
        /\ (new_gcc_size = GCCSize(built)) => ~IsArticulationPoint(built, top_hub)

\* C5 amended: after removing the top hub of a graph of 2 or more nodes the
\* GCC is no larger than before, and is as large exactly when some largest
\* component of the original graph does not contain the hub.
C5_EqualIffLargestComponentWithoutHub ==
    (HubReported /\ Len(built.nodes) >= 2) =>
        /\ new_gcc_size <= GCCSize(built)
        /\ (new_gcc_size = GCCSize(built)) <=>
              \E c \in ComponentSet(built) :
                  Cardinality(c) = GCCSize(built) /\ top_hub \notin c

C5_Witness ==
    /\ HubReported
    /\ Len(built.nodes) >= 2
    /\ new_gcc_size = GCCSize(built)
    /\ IsArticulationPoint(built, top_hub)

\* C6: once load_and_build_graph has returned, the graph object G keeps its
\* nodes, attributes and edges through every later step, and the graph
\* given to the exporter is the graph as built.
C6_GraphUntouched ==
    /\ Returned => heap[G] = built
    /\ pc = "done" => exported = built

C6_Witness ==
    /\ pc = "done"
    /\ Degree(built, top_hub) > 0
    /\ top_hub \notin NodeSet(heap[G_no_hub])
    /\ top_hub \in NodeSet(exported)
    /\ \E e \in exported.edges : top_hub \in e

InputDegrees == [i \in 1..Len(built.nodes) |-> Degree(built, built.nodes[i])]

ConfigDegrees == [i \in 1..config_multi.n |-> MultiDegree(config_multi, i - 1)]

CountOf(seq, k) == Cardinality({i \in 1..Len(seq) : seq[i] = k})

SeqSum(seq) == SumOver(seq, 1..Len(seq))

\* C7: before parallel edges are merged, the configuration-model graph has
\* the degree sequence of G as a multiset: as many nodes, the same sum and
\* the same number of nodes of every degree, for every pairing of stubs.
C7_DegreeMultisetPreserved ==
    config_G # None =>
        /\ Len(ConfigDegrees) = Len(InputDegrees)
        /\ SeqSum(ConfigDegrees) = SeqSum(InputDegrees)
        /\ \A k \in 0..(2 * Cardinality(built.edges)) :
              CountOf(ConfigDegrees, k) = CountOf(InputDegrees, k)
        /\ \A i \in 1..Len(ConfigDegrees) :
              ConfigDegrees[i] \in 0..(2 * Cardinality(built.edges))

C7_Witness ==
    /\ config_G # None
    /\ \E e \in DOMAIN config_multi.edges : config_multi.edges[e] > 1
    /\ \E n \in 0..(config_multi.n - 1) : {n} \in DOMAIN config_multi.edges

\* C8: when the giant component has 2 or more nodes, the reported diameter is
\* at least the reported average shortest-path length, which is at least 1.
C8_DiameterAtLeastAveragePath ==
    (BasicReported /\ GCCSize(built) >= 2) =>
        /\ avg_path[2] > 0
        /\ diameter * avg_path[2] >= avg_path[1]
        /\ avg_path[1] >= avg_path[2]

C8_Witness ==
    /\ BasicReported
    /\ GCCSize(built) >= 3
    /\ diameter * avg_path[2] > avg_path[1]
    /\ avg_path[1] > avg_path[2]

\* C9: the removed hub has maximum degree in G, and every node that was added
\* to the graph before it has a strictly smaller degree.
C9_FirstMaxDegreeHub ==
    top_hub # None =>
        /\ top_hub \in NodeSet(built)
        /\ \A n \in NodeSet(built) : Degree(built, n) <= Degree(built, top_hub)
        /\ \A i \in 1..(IndexOf(built.nodes, top_hub) - 1) :
              Degree(built, built.nodes[i]) < Degree(built, top_hub)

C9_Witness ==
    /\ top_hub # None
    /\ IndexOf(built.nodes, top_hub) > 1
    /\ \E i \in (IndexOf(built.nodes, top_hub) + 1)..Len(built.nodes) :
          Degree(built, built.nodes[i]) = Degree(built, top_hub)

====
